---- MODULE Spec2Model ----
(***************************************************************************)
(* Model of 1million.py: a script that connects to PostgreSQL, ensures the *)
(* customers table exists, streams a CSV file through a name filter into   *)
(* batched upserts, commits, and prints a report.                          *)
(*                                                                         *)
(* A Python str is a sequence of one-character strings; None is a value    *)
(* that is no such sequence.  The database is the committed table, the     *)
(* session's uncommitted view of it, and the SERIAL sequence.              *)
(***************************************************************************)
EXTENDS Integers, Sequences, FiniteSets, TLC

\* ------------------------------------------------------------------ bounds
MaxRows == 4
MaxBatchSize == 2
MaxReloadRows == 3

\* --------------------------------------------------------- program constants
VarcharId == 100
VarcharPhone == 100
VarcharText == 255

\* ------------------------------------------------------------ Python values
None == <<"None">>
EmptyStr == <<>>

IsStr(v) == v # None

\* str.startswith(prefix)
startswith(s, prefix) ==
    /\ Len(s) >= Len(prefix)
    /\ SubSeq(s, 1, Len(prefix)) = prefix

\* truth value of an optional str: None and "" are false
Truthy(v) == v # None /\ v # EmptyStr

\* ------------------------------------------------------------ column labels
CSV_HEADERS ==
    << "Index", "Customer Id", "First Name", "Last Name", "Company", "City",
       "Country", "Phone 1", "Phone 2", "Email", "Subscription Date", "Website" >>

DB_COLUMNS ==
    << "customer_id", "first_name", "last_name", "company", "city",
       "country", "phone_1", "phone_2", "email", "subscription_date", "website" >>

\* the columns the ON CONFLICT clause assigns from EXCLUDED
UpdateColumns ==
    { "first_name", "last_name", "company", "city", "country",
      "phone_1", "phone_2", "email", "subscription_date", "website" }

TableColumns == {"id"} \cup { DB_COLUMNS[i] : i \in 1..Len(DB_COLUMNS) }

ColumnPos(c) == CHOOSE i \in 1..Len(DB_COLUMNS) : DB_COLUMNS[i] = c

\* ------------------------------------------------------------ csv.DictReader
\* A data line with fewer fields than the header gets None for the rest.
DictReader(fields) ==
    [ h \in { CSV_HEADERS[i] : i \in 1..Len(CSV_HEADERS) } |->
        LET p == CHOOSE i \in 1..Len(CSV_HEADERS) : CSV_HEADERS[i] = h
        IN  IF p <= Len(fields) THEN fields[p] ELSE None ]

\* dict.get(key, default)
RowGet(row, key, default) ==
    IF key \in DOMAIN row THEN row[key] ELSE default

\* ------------------------------------------------- the filter and the record
first_name(row) == RowGet(row, "First Name", EmptyStr)
last_name(row) == RowGet(row, "Last Name", EmptyStr)

\* first_name.startswith('A') and last_name.startswith('F') calls a method of
\* None when the value is None: AttributeError.  `and` evaluates its right
\* operand only when the left one is true.
FilterRaises(row) ==
    \/ ~IsStr(first_name(row))
    \/ /\ startswith(first_name(row), <<"A">>)
       /\ ~IsStr(last_name(row))

\* variant of FilterKeeps: the test ignores the case of the first letter
FilterKeepsAnyCase(row) ==
    /\ \/ startswith(first_name(row), <<"A">>)
       \/ startswith(first_name(row), <<"a">>)
    /\ \/ startswith(last_name(row), <<"F">>)
       \/ startswith(last_name(row), <<"f">>)

FilterKeeps(row) ==
    /\ startswith(first_name(row), <<"A">>)
    /\ startswith(last_name(row), <<"F">>)

sub_date(row) ==
    LET v == RowGet(row, "Subscription date", None)
    IN  IF ~Truthy(v) THEN None ELSE v

\* the tuple of data in the order of DB_COLUMNS
data_tuple(row) ==
    << RowGet(row, "Customer Id", None),
       first_name(row),
       last_name(row),
       RowGet(row, "Company", None),
       RowGet(row, "City", None),
       RowGet(row, "Country", None),
       RowGet(row, "Phone 1", None),
       RowGet(row, "Phone 2", None),
       RowGet(row, "Email", None),
       sub_date(row),
       RowGet(row, "Website", None) >>

\* ------------------------------------------------------------------ the store
\* customers: a set of rows, each a function on TableColumns.
ColumnLimit(c) ==
    CASE c = "customer_id" -> VarcharId
      [] c \in {"phone_1", "phone_2"} -> VarcharPhone
      [] OTHER -> VarcharText

DateOk(v) ==
    \/ v = None
    \/ /\ Len(v) = 10
       /\ v[5] = "-"
       /\ v[8] = "-"

\* the error the table's column types and constraints raise for one INSERT
StoreError(t) ==
    IF t[ColumnPos("customer_id")] = None THEN "IntegrityError"
    ELSE IF \E i \in 1..Len(DB_COLUMNS) :
                /\ DB_COLUMNS[i] # "subscription_date"
                /\ t[i] # None
                /\ Len(t[i]) > ColumnLimit(DB_COLUMNS[i])
         THEN "DataError"
    ELSE IF ~DateOk(t[ColumnPos("subscription_date")]) THEN "DataError"
    ELSE "none"

Excluded(t) == [ c \in UpdateColumns \cup {"customer_id"} |-> t[ColumnPos(c)] ]

\* variant of Upsert: INSERT ... ON CONFLICT (customer_id) DO NOTHING
UpsertDoNothing(rows, t, nextid) ==
    LET new == Excluded(t)
    IN  IF \E r \in rows : r["customer_id"] = new["customer_id"]
        THEN rows
        ELSE rows \cup
             { [ c \in TableColumns |-> IF c = "id" THEN nextid ELSE new[c] ] }

\* variant of Upsert: INSERT with no conflict clause into a table with no
\* unique customer_id
UpsertPlainInsert(rows, t, nextid) ==
    rows \cup
    { [ c \in TableColumns |-> IF c = "id" THEN nextid ELSE Excluded(t)[c] ] }

\* INSERT ... ON CONFLICT (customer_id) DO UPDATE SET <every other column>;
\* nextid is the value the SERIAL default drew for this statement.
Upsert(rows, t, nextid) ==
    LET new == Excluded(t)
    IN  IF \E r \in rows : r["customer_id"] = new["customer_id"]
        THEN { IF r["customer_id"] = new["customer_id"]
               THEN [ c \in TableColumns |->
                        IF c \in UpdateColumns THEN new[c] ELSE r[c] ]
               ELSE r : r \in rows }
        ELSE rows \cup
             { [ c \in TableColumns |-> IF c = "id" THEN nextid ELSE new[c] ] }

\* cursor.executemany: one statement per tuple, in order, until one fails.
\* lostAt is the statement at which the connection is lost (Len(b)+1: never).
RECURSIVE ExecFrom(_, _, _, _, _)
ExecFrom(rows, sq, b, i, lostAt) ==
    IF i > Len(b) THEN [rows |-> rows, seq |-> sq, done |-> i - 1, err |-> "none"]
    ELSE IF i = lostAt
         THEN [rows |-> rows, seq |-> sq, done |-> i - 1, err |-> "OperationalError"]
    ELSE IF StoreError(b[i]) # "none"
         THEN [rows |-> rows, seq |-> sq + 1, done |-> i - 1, err |-> StoreError(b[i])]
    ELSE ExecFrom(Upsert(rows, b[i], sq + 1), sq + 1, b, i + 1, lostAt)

executemany(rows, sq, b, lostAt) == ExecFrom(rows, sq, b, 1, lostAt)

\* SELECT ... WHERE first_name LIKE 'A%' AND last_name LIKE 'F%'
sql_query(rows) ==
    { r \in rows :
        /\ r["first_name"] # None /\ startswith(r["first_name"], <<"A">>)
        /\ r["last_name"] # None /\ startswith(r["last_name"], <<"F">>) }

\* ------------------------------------------------------------------- inputs
ID1 == <<"1">>
ID2 == <<"2">>
LongId == [ i \in 1..(VarcharId + 1) |-> "9" ]
Al == <<"A", "l">>
al == <<"a", "l">>
Fo == <<"F", "o">>
fo == <<"f", "o">>
CoX == <<"X">>
CoY == <<"Y">>
CoZ == <<"Z">>
D2020 == <<"2", "0", "2", "0", "-", "0", "1", "-", "0", "1">>
D2019 == <<"2", "0", "1", "9", "-", "1", "2", "-", "3", "1">>

\* one data line of the file, by field position
Line(cid, fn, ln, co, sd) ==
    << <<"7">>, cid, fn, ln, co, <<"c">>, <<"k">>, <<"5">>, <<"6">>, <<"e">>, sd, <<"w">> >>

LinePool ==
    { Line(ID1, Al, Fo, CoX, D2020),
      Line(ID1, Al, Fo, CoY, EmptyStr),
      SubSeq(Line(ID2, Al, Fo, CoX, EmptyStr), 1, 10),
      Line(ID2, al, Fo, CoX, D2020),
      Line(ID2, Al, fo, CoY, D2020),
      SubSeq(Line(ID1, Al, Fo, CoX, EmptyStr), 1, 2),
      SubSeq(Line(ID2, Al, Fo, CoX, EmptyStr), 1, 3),
      SubSeq(Line(ID2, al, Fo, CoX, EmptyStr), 1, 3),
      Line(LongId, Al, Fo, CoX, D2020) }

\* a customers row left by an earlier run
OldRow ==
    [ c \in TableColumns |->
        CASE c = "id" -> 1
          [] c = "customer_id" -> ID1
          [] c = "first_name" -> Al
          [] c = "last_name" -> Fo
          [] c = "company" -> CoZ
          [] c = "subscription_date" -> D2019
          [] OTHER -> None ]

NoTable == [exists |-> FALSE, rows |-> {}]
InitialStores == { NoTable, [exists |-> TRUE, rows |-> {OldRow}] }

\* -------------------------------------------------------------------- state
VARIABLES
    source,           \* the data lines of customers.csv (header excluded),
                      \* as far as any execution has read them
    reader_pos,       \* how many data lines csv.DictReader has yielded
    csv_exists,       \* whether open(csv_filename) finds the file
    batch_size,       \* process_and_insert_csv's batch_size
    pc,               \* the statement the script is at
    conn,             \* "None", "open" or "closed"
    exc,              \* the exception being propagated, or "none"
    committed,        \* the database as other sessions see it
    working,          \* the database as this session's transaction sees it
    seq,              \* last value drawn from customers_id_seq
    batch,
    total_processed,
    total_inserted,
    writes,           \* history: the batch of every executemany call
    applied,          \* history: the tuples whose statement this session ran
    kept,             \* history: positions of the lines appended to a batch
    log,              \* history: every call made on the session
    at_load,          \* history: committed when process_and_insert_csv started
    raised_in,        \* history: the step that raised first, or "none"
    report,           \* what get_filtered_customers printed
    run,              \* which execution of the script this is
    prev              \* history: committed when the previous execution ended

vars ==
    << source, reader_pos, csv_exists, batch_size, pc, conn, exc, committed, working, seq,
       batch, total_processed, total_inserted, writes, applied, kept, log,
       at_load, raised_in, report, run, prev >>

inputs == << csv_exists, batch_size >>
file == << source, reader_pos >>
loader == << file, batch, total_processed, total_inserted, writes, applied, kept, at_load >>
database == << committed, working, seq >>
history == << run, prev >>

Call(by, op) == [by |-> by, op |-> op]

\* an exception reaching the try statement of the main block: the first
\* except clause whose class matches takes it
Raise(e) ==
    /\ exc' = e
    /\ pc' = IF e = "OperationalError" THEN "except_OperationalError"
             ELSE "except_Exception"

Init ==
    /\ csv_exists \in BOOLEAN
    /\ source = <<>>
    /\ reader_pos = 0
    /\ batch_size \in 1..MaxBatchSize
    /\ pc = "connect"
    /\ conn = "None"
    /\ exc = "none"
    /\ committed \in InitialStores
    /\ working = committed
    /\ seq = Cardinality(committed.rows)
    /\ batch = <<>>
    /\ total_processed = 0
    /\ total_inserted = 0
    /\ writes = <<>>
    /\ applied = <<>>
    /\ kept = <<>>
    /\ log = <<>>
    /\ at_load = committed
    /\ raised_in = "none"
    /\ report = "none"
    /\ run = 1
    /\ prev = committed

\* ------------------------------------------------------------ main: connect
Connect ==
    /\ pc = "connect"
    /\ \E outcome \in {"ok", "OperationalError"} :
         IF outcome = "ok"
         THEN /\ conn' = "open"
              /\ pc' = "setup_execute"
              /\ UNCHANGED << exc, raised_in >>
         ELSE /\ conn' = conn
              /\ raised_in' = "connect"
              /\ Raise(outcome)
    /\ UNCHANGED << inputs, database, loader, log, report, history >>

\* ----------------------------------------------------------- setup_database
SetupExecute ==
    /\ pc = "setup_execute"
    /\ log' = Append(log, Call("setup_database", "execute"))
    /\ \E outcome \in {"ok", "OperationalError", "ProgrammingError"} :
         IF outcome = "ok"
         THEN /\ working' = [working EXCEPT !.exists = TRUE]
              /\ pc' = "setup_commit"
              /\ UNCHANGED << exc, raised_in >>
         ELSE /\ working' = working
              /\ pc' = "setup_except"
              /\ exc' = outcome
              /\ raised_in' = "setup_database"
    /\ UNCHANGED << inputs, conn, committed, seq, loader, report, history >>

\* variant of SetupCommit: setup_database without its conn.commit()
SetupNoCommit ==
    /\ pc = "setup_commit"
    /\ pc' = "load_open"
    /\ UNCHANGED << inputs, conn, exc, database, loader, log, raised_in,
                    report, history >>

SetupCommit ==
    /\ pc = "setup_commit"
    /\ log' = Append(log, Call("setup_database", "commit"))
    /\ \E outcome \in {"ok", "OperationalError"} :
         IF outcome = "ok"
         THEN /\ committed' = working
              /\ pc' = "load_open"
              /\ UNCHANGED << exc, raised_in >>
         ELSE /\ committed' = committed
              /\ pc' = "setup_except"
              /\ exc' = outcome
              /\ raised_in' = "setup_database"
    /\ UNCHANGED << inputs, conn, working, seq, loader, report, history >>

\* variant of SetupExcept: rolls back and prints, without raise
SetupExceptSwallows ==
    /\ pc = "setup_except"
    /\ log' = Append(log, Call("setup_database", "rollback"))
    /\ working' = committed
    /\ pc' = "load_open"
    /\ UNCHANGED << inputs, conn, exc, committed, seq, loader, raised_in,
                    report, history >>

\* except Exception: conn.rollback(); raise
SetupExcept ==
    /\ pc = "setup_except"
    /\ log' = Append(log, Call("setup_database", "rollback"))
    /\ \E outcome \in {"ok", "InterfaceError"} :
         IF outcome = "ok"
         THEN /\ working' = committed
              /\ Raise(exc)
         ELSE /\ working' = working
              /\ Raise(outcome)
    /\ UNCHANGED << inputs, conn, committed, seq, loader, raised_in, report,
                    history >>

\* ------------------------------------------------- process_and_insert_csv
\* variant of LoadOpen: no except FileNotFoundError clause, so the error
\* propagates like any other
LoadOpenRaises ==
    /\ pc = "load_open"
    /\ at_load' = committed
    /\ IF csv_exists
       THEN /\ pc' = "load_rows"
            /\ UNCHANGED << exc, raised_in >>
       ELSE /\ raised_in' = "process_and_insert_csv"
            /\ Raise("FileNotFoundError")
    /\ UNCHANGED << inputs, file, conn, database, batch, total_processed,
                    total_inserted, writes, applied, kept, log, report, history >>

\* with open(csv_filename): FileNotFoundError is caught by the function itself,
\* which then returns normally
LoadOpen ==
    /\ pc = "load_open"
    /\ at_load' = committed
    /\ pc' = IF csv_exists THEN "load_rows" ELSE "main_commit"
    /\ UNCHANGED << inputs, file, conn, exc, database, batch, total_processed,
                    total_inserted, writes, applied, kept, log, raised_in,
                    report, history >>

\* variant of BatchFull: len(batch) > batch_size
BatchOverfull(b, n) == Len(b) > n

\* len(batch) >= batch_size
BatchFull(b, n) == Len(b) >= n

\* variant of CountInserted: total_inserted += 1 outside the if
CountEveryRow(keep, n) == n + 1

\* total_inserted += 1, inside the if of the filter
CountInserted(keep, n) == IF keep THEN n + 1 ELSE n

\* variant of LoaderExcept: except Exception prints and does not raise
LoaderSwallows(e) ==
    /\ pc' = "main_commit"
    /\ exc' = exc

\* except Exception as e: print; raise
LoaderExcept(e) == Raise(e)

\* variant of Write: the batch is never reset after a write
WriteKeepsBatch(b, lostAt, cleared, nextpc) ==
    LET r == executemany(working.rows, seq, b, lostAt)
    IN  /\ log' = Append(log, Call("process_and_insert_csv", "executemany"))
        /\ writes' = Append(writes, b)
        /\ applied' = applied \o SubSeq(b, 1, r.done)
        /\ working' = [working EXCEPT !.rows = r.rows]
        /\ seq' = r.seq
        /\ batch' = b
        /\ IF r.err = "none"
           THEN /\ pc' = nextpc
                /\ UNCHANGED << exc, raised_in >>
           ELSE /\ raised_in' = "process_and_insert_csv"
                /\ LoaderExcept(r.err)

\* with conn.cursor() as cur: cur.executemany(sql_insert, b), then what the
\* code does with the batch
Write(b, lostAt, cleared, nextpc) ==
    LET r == executemany(working.rows, seq, b, lostAt)
    IN  /\ log' = Append(log, Call("process_and_insert_csv", "executemany"))
        /\ writes' = Append(writes, b)
        /\ applied' = applied \o SubSeq(b, 1, r.done)
        /\ working' = [working EXCEPT !.rows = r.rows]
        /\ seq' = r.seq
        /\ IF r.err = "none"
           THEN /\ batch' = cleared
                /\ pc' = nextpc
                /\ UNCHANGED << exc, raised_in >>
           ELSE /\ batch' = b
                /\ raised_in' = "process_and_insert_csv"
                /\ LoaderExcept(r.err)

\* the lines the reader can yield next: the file's next line; in the first
\* execution the file is known only as far as it has been read, and any line
\* can follow until the file ends
NextLines ==
    IF reader_pos < Len(source) THEN { source[reader_pos + 1] }
    ELSE IF run = 1 /\ Len(source) < MaxRows THEN LinePool
    ELSE {}

\* one iteration of `for row in reader`
LoadRow ==
    /\ pc = "load_rows"
    /\ \E line \in NextLines :
         /\ source' = IF reader_pos < Len(source) THEN source
                      ELSE Append(source, line)
         /\ reader_pos' = reader_pos + 1
         /\ total_processed' = total_processed + 1
         /\ LET row == DictReader(line)
            IN  IF FilterRaises(row)
                THEN /\ raised_in' = "process_and_insert_csv"
                     /\ LoaderExcept("AttributeError")
                     /\ UNCHANGED << batch, total_inserted, kept, writes,
                                     applied, working, seq, log >>
                ELSE LET keep == FilterKeeps(row)
                         b1 == IF keep THEN Append(batch, data_tuple(row))
                               ELSE batch
                     IN  /\ total_inserted' = CountInserted(keep, total_inserted)
                         /\ kept' = IF keep THEN Append(kept, reader_pos + 1)
                                    ELSE kept
                         /\ IF BatchFull(b1, batch_size)
                            THEN \E lostAt \in 1..(Len(b1) + 1) :
                                     Write(b1, lostAt, <<>>, "load_rows")
                            ELSE /\ batch' = b1
                                 /\ UNCHANGED << pc, exc, working, seq, writes,
                                                 applied, log, raised_in >>
    /\ UNCHANGED << inputs, conn, committed, at_load, report, history >>

\* variant of LoadFinish: no final flush after the loop
LoadFinishNoFlush ==
    /\ pc = "load_rows"
    /\ reader_pos = Len(source)
    /\ pc' = "main_commit"
    /\ UNCHANGED << batch, exc, working, seq, writes, applied, log, raised_in >>
    /\ UNCHANGED << inputs, file, conn, committed, total_processed,
                    total_inserted, kept, at_load, report, history >>

\* the reader is exhausted: write the last batch if there is one, and return
LoadFinish ==
    /\ pc = "load_rows"
    /\ reader_pos = Len(source)
    /\ IF batch # <<>>
       THEN \E lostAt \in 1..(Len(batch) + 1) :
                Write(batch, lostAt, batch, "main_commit")
       ELSE /\ pc' = "main_commit"
            /\ UNCHANGED << batch, exc, working, seq, writes, applied, log,
                            raised_in >>
    /\ UNCHANGED << inputs, file, conn, committed, total_processed,
                    total_inserted, kept, at_load, report, history >>

\* variant of MainCommit: a failing commit is noted and the main block goes
\* on to the report
MainCommitContinues ==
    /\ pc = "main_commit"
    /\ log' = Append(log, Call("main", "commit"))
    /\ \E outcome \in {"ok", "OperationalError"} :
         IF outcome = "ok"
         THEN /\ committed' = working
              /\ UNCHANGED << exc, raised_in >>
         ELSE /\ committed' = committed
              /\ raised_in' = "commit"
              /\ exc' = outcome
    /\ pc' = "report"
    /\ UNCHANGED << inputs, conn, working, seq, loader, report, history >>

\* --------------------------------------------------------------- main: rest
MainCommit ==
    /\ pc = "main_commit"
    /\ log' = Append(log, Call("main", "commit"))
    /\ \E outcome \in {"ok", "OperationalError"} :
         IF outcome = "ok"
         THEN /\ committed' = working
              /\ pc' = "report"
              /\ UNCHANGED << exc, raised_in >>
         ELSE /\ committed' = committed
              /\ raised_in' = "commit"
              /\ Raise(outcome)
    /\ UNCHANGED << inputs, conn, working, seq, loader, report, history >>

\* variant of GetFilteredCustomers: no try/except around the query, so a
\* failing query reaches the main block
GetFilteredCustomersRaises ==
    /\ pc = "report"
    /\ log' = Append(log, Call("get_filtered_customers", "execute"))
    /\ \E outcome \in {"ok", "OperationalError"} :
         IF outcome = "ok"
         THEN /\ report' = IF sql_query(working.rows) = {} THEN "no_match"
                           ELSE "listed"
              /\ pc' = "finally"
              /\ UNCHANGED << exc, raised_in >>
         ELSE /\ report' = "error"
              /\ raised_in' = "get_filtered_customers"
              /\ Raise(outcome)
    /\ UNCHANGED << inputs, conn, database, loader, history >>

\* get_filtered_customers: a failing query is caught inside the function
GetFilteredCustomers ==
    /\ pc = "report"
    /\ log' = Append(log, Call("get_filtered_customers", "execute"))
    /\ \E outcome \in {"ok", "OperationalError"} :
         report' = IF outcome # "ok" THEN "error"
                   ELSE IF sql_query(working.rows) = {} THEN "no_match"
                   ELSE "listed"
    /\ pc' = "finally"
    /\ UNCHANGED << inputs, conn, exc, database, loader, raised_in, history >>

\* except OperationalError: prints only
ExceptOperationalError ==
    /\ pc = "except_OperationalError"
    /\ pc' = "finally"
    /\ UNCHANGED << inputs, conn, exc, database, loader, log, raised_in,
                    report, history >>

\* except (Exception, psycopg2.DatabaseError): if conn: conn.rollback()
ExceptException ==
    /\ pc = "except_Exception"
    /\ pc' = "finally"
    /\ IF conn # "None"
       THEN /\ log' = Append(log, Call("main", "rollback"))
            /\ \E outcome \in {"ok", "InterfaceError"} :
                 IF outcome = "ok"
                 THEN /\ working' = committed
                      /\ exc' = exc
                 ELSE /\ working' = working
                      /\ exc' = outcome
       ELSE UNCHANGED << log, working, exc >>
    /\ UNCHANGED << inputs, conn, committed, seq, loader, raised_in, report,
                    history >>

\* variant of Finally: conn.close() at the end of the try body instead of in
\* a finally clause, so it is skipped when an exception was raised
FinallyOnlyOnSuccess ==
    /\ pc = "finally"
    /\ pc' = "done"
    /\ IF conn # "None" /\ exc = "none"
       THEN /\ conn' = "closed"
            /\ working' = committed
            /\ log' = Append(log, Call("main", "close"))
       ELSE UNCHANGED << conn, working, log >>
    /\ UNCHANGED << inputs, exc, committed, seq, loader, raised_in, report,
                    history >>

\* variant of Finally: conn.close() without the `if conn` guard
FinallyUnguarded ==
    /\ pc = "finally"
    /\ pc' = "done"
    /\ conn' = "closed"
    /\ working' = committed
    /\ log' = Append(log, Call("main", "close"))
    /\ UNCHANGED << inputs, exc, committed, seq, loader, raised_in, report,
                    history >>

\* finally: if conn: conn.close().  Closing discards what was not committed.
Finally ==
    /\ pc = "finally"
    /\ pc' = "done"
    /\ IF conn # "None"
       THEN /\ conn' = "closed"
            /\ working' = committed
            /\ log' = Append(log, Call("main", "close"))
       ELSE UNCHANGED << conn, working, log >>
    /\ UNCHANGED << inputs, exc, committed, seq, loader, raised_in, report,
                    history >>

Next ==
    \/ Connect
    \/ SetupExecute
    \/ SetupCommit
    \/ SetupExcept
    \/ LoadOpen
    \/ LoadRow
    \/ LoadFinish
    \/ MainCommit
    \/ GetFilteredCustomers
    \/ ExceptOperationalError
    \/ ExceptException
    \/ Finally

Spec == Init /\ [][Next]_vars

\* The script is one sequential process that keeps executing until its last
\* statement: a step that can be taken is eventually taken.
SpecFair == Spec /\ WF_vars(Next)

\* ------------------------------------------------- running the script again
\* After a first execution that ended without an error, the script is started
\* a second time on the same file (of at most MaxReloadRows lines) and the
\* same database.
RunAgain ==
    /\ pc = "done"
    /\ exc = "none"
    /\ conn = "closed"
    /\ run = 1
    /\ Len(source) <= MaxReloadRows
    /\ run' = 2
    /\ prev' = committed
    /\ pc' = "connect"
    /\ conn' = "None"
    /\ working' = committed
    /\ batch' = <<>>
    /\ reader_pos' = 0
    /\ total_processed' = 0
    /\ total_inserted' = 0
    /\ writes' = <<>>
    /\ applied' = <<>>
    /\ kept' = <<>>
    /\ log' = <<>>
    /\ at_load' = committed
    /\ report' = "none"
    /\ UNCHANGED << inputs, source, exc, committed, seq, raised_in >>

NextAgain ==
    \/ Next
    \/ RunAgain

SpecAgain == Init /\ [][NextAgain]_vars

\* ------------------------------------------------------ reading the history
RECURSIVE Flatten(_)
Flatten(ss) == IF ss = <<>> THEN <<>> ELSE Head(ss) \o Flatten(Tail(ss))

Range(f) == { f[i] : i \in DOMAIN f }

CallsOf(op) == { i \in 1..Len(log) : log[i].op = op }
CallsBy(by, op) == { i \in 1..Len(log) : log[i] = Call(by, op) }

\* process_and_insert_csv has returned to the main block in this execution
LoaderReturned ==
    \/ pc \in {"main_commit", "report"}
    \/ /\ pc \in {"except_OperationalError", "except_Exception", "finally", "done"}
       /\ raised_in \in {"none", "commit"}

\* what the spec's filter says of a data line, by field position: the first
\* name (3rd field) starts with A and the last name (4th field) with F
PassesFilter(line) ==
    /\ Len(line) >= 4
    /\ Len(line[3]) >= 1 /\ line[3][1] = "A"
    /\ Len(line[4]) >= 1 /\ line[4][1] = "F"

\* ----------------------------------------------------------------- C1
\* C1 as stated: once the Batch Loader has returned no commit has been issued
\* yet (none by the Schema Initializer, none between batches), and the run as
\* a whole issues exactly one commit.
C1_Original ==
    /\ (pc = "main_commit" => CallsOf("commit") = {})
    /\ (pc = "done" /\ LoaderReturned => Cardinality(CallsOf("commit")) = 1)

\* C1 amended: in every run in which the Batch Loader returns, commit is
\* issued exactly twice: once by the Schema Initializer, right after the
\* table-creation statement and before the Batch Loader starts, and once by
\* the main block after the Batch Loader has returned.  No commit is issued
\* while the Batch Loader runs, every batch write lies between the two
\* commits, and nothing is persisted between batches.
C1_Amended ==
    /\ pc \in {"load_rows", "main_commit"} =>
         /\ CallsOf("commit") = {2}
         /\ log[2] = Call("setup_database", "commit")
         /\ committed = at_load
    /\ (LoaderReturned /\ pc # "main_commit") =>
         /\ Cardinality(CallsOf("commit")) = 2
         /\ CallsBy("setup_database", "commit") = {2}
         /\ \E m \in CallsBy("main", "commit") :
              \A w \in CallsOf("executemany") : 2 < w /\ w < m

C1_Witness ==
    /\ pc = "done"
    /\ raised_in = "none"
    /\ Len(writes) >= 2

\* ----------------------------------------------------------------- C2
\* C2: once process_and_insert_csv has failed with an error other than a
\* missing file, the main commit is never issued, the committed table is what
\* it was when the loader started, and at the end of the run the session's
\* view holds none of the batches written.
C2_NoPartialCommit ==
    raised_in = "process_and_insert_csv" =>
        /\ CallsBy("main", "commit") = {}
        /\ committed = at_load
        /\ (pc = "done" => working = at_load)

C2_Witness ==
    /\ pc = "done"
    /\ raised_in = "process_and_insert_csv"
    /\ exc = "OperationalError"
    /\ Len(writes) >= 2
    /\ Len(applied) >= 1

\* ----------------------------------------------------------------- C3
\* C3 as stated: whenever the Schema Initializer or the Batch Loader raised,
\* by the end of the run the main block has called rollback on the session,
\* and did so before closing it.
C3_Original ==
    (pc = "done" /\ raised_in \in {"setup_database", "process_and_insert_csv"}) =>
        \E r \in CallsBy("main", "rollback") :
            \E c \in CallsBy("main", "close") : r < c

\* ----------------------------------------------------------------- C4
\* the tuples handed to the store, in the order they were handed over
Sent == Flatten(writes)

\* what the spec says is stored for a line's 'Subscription Date' (11th field)
ExpectedDate(line) ==
    IF Len(line) < 11 \/ line[11] = EmptyStr THEN None ELSE line[11]

\* C4 as stated: the subscription_date the store received for a kept line is
\* null when the line's 'Subscription Date' is empty or absent, and is the
\* line's value otherwise.  (The i-th statement the store ran carries the
\* i-th kept line.)
C4_Original ==
    \A i \in 1..Len(applied) :
        applied[i][10] = ExpectedDate(source[kept[i]])

\* ----------------------------------------------------------------- C5
\* C5: the lines read so far that were placed in a batch are exactly the lines
\* whose first name starts with A and whose last name starts with F (case
\* sensitive); batches and writes hold the kept lines' records and nothing
\* else, so a line failing the filter adds nothing to the batch or the store;
\* and when the loader returns every kept line has been handed to the store.
C5_FilterIff ==
    /\ Range(kept) = { i \in 1..reader_pos : PassesFilter(source[i]) }
    /\ pc = "load_rows" => Len(Sent) + Len(batch) = Len(kept)
    /\ (pc = "main_commit" /\ csv_exists) => Len(Sent) = Len(kept)
    /\ \A i \in 1..Len(Sent) :
         /\ i <= Len(kept)
         /\ Sent[i][1] = source[kept[i]][2]
         /\ Sent[i][2] = source[kept[i]][3]
         /\ Sent[i][3] = source[kept[i]][4]
    /\ Range(applied) \subseteq Range(Sent)

C5_Witness ==
    /\ pc = "main_commit"
    /\ Len(kept) >= 1
    /\ Len(Sent) = Len(kept)
    /\ \E i \in 1..reader_pos :
         /\ i \notin Range(kept)
         /\ source[i][3] = al

\* ----------------------------------------------------------------- C6
\* C6: when process_and_insert_csv returns after reading the file, processed
\* is the number of data lines, and inserted is the number of lines passing
\* the filter, which is the number of records handed to the store.
C6_Counters ==
    (pc = "main_commit" /\ csv_exists) =>
        /\ total_processed = Len(source)
        /\ total_inserted =
             Cardinality({ i \in 1..Len(source) : PassesFilter(source[i]) })
        /\ total_inserted = Len(Sent)

C6_Witness ==
    /\ pc = "main_commit"
    /\ total_processed >= 3
    /\ total_inserted >= 1
    /\ total_inserted < total_processed

\* ----------------------------------------------------------------- C7
\* C7: with N = batch_size >= 1 and M lines passing the filter, a successful
\* load issues ceil(M/N) writes; all but the last carry N records, the last
\* carries M mod N (N when that is 0); none is empty.
C7_BatchCount ==
    (pc = "main_commit" /\ csv_exists) =>
        LET M == Cardinality({ i \in 1..Len(source) : PassesFilter(source[i]) })
            N == batch_size
            W == Len(writes)
        IN  /\ W = (M + N - 1) \div N
            /\ \A i \in 1..W : Len(writes[i]) >= 1
            /\ \A i \in 1..(W - 1) : Len(writes[i]) = N
            /\ W >= 1 => Len(writes[W]) = (IF M % N = 0 THEN N ELSE M % N)

C7_Witness ==
    /\ pc = "main_commit"
    /\ batch_size = 2
    /\ Len(writes) = 2
    /\ Len(writes[2]) = 1
    /\ total_processed > total_inserted

\* ----------------------------------------------------------------- C8
\* C8: when the file does not exist the loader reads no line, issues no
\* write and raises nothing; the main block then issues its commit and closes
\* the session; and when that commit returns, the report runs and no rollback
\* is called in the whole run.
C8_MissingSource ==
    ~csv_exists =>
        /\ total_processed = 0
        /\ total_inserted = 0
        /\ CallsOf("executemany") = {}
        /\ raised_in # "process_and_insert_csv"
        /\ (pc = "done" /\ raised_in \notin {"connect", "setup_database"}) =>
             /\ Cardinality(CallsBy("main", "commit")) = 1
             /\ log[Len(log)] = Call("main", "close")
             /\ raised_in = "none" =>
                  /\ report # "none"
                  /\ CallsOf("rollback") = {}
                  /\ exc = "none"

C8_Witness ==
    /\ ~csv_exists
    /\ pc = "done"
    /\ raised_in = "none"
    /\ report = "no_match"

\* ----------------------------------------------------------------- C9
NonKeyColumns ==
    { "first_name", "last_name", "company", "city", "country", "phone_1",
      "phone_2", "email", "subscription_date", "website" }

\* the last tuple this session upserted for a customer_id
LastUpsert(cid) ==
    applied[CHOOSE i \in 1..Len(applied) :
                /\ applied[i][1] = cid
                /\ \A j \in (i + 1)..Len(applied) : applied[j][1] # cid]

AtMostOnePerId(rows) ==
    \A r1, r2 \in rows : r1["customer_id"] = r2["customer_id"] => r1 = r2

HoldsLastUpsert(rows) ==
    \A r \in rows :
        (\E i \in 1..Len(applied) : applied[i][1] = r["customer_id"]) =>
            \A c \in NonKeyColumns :
                r[c] = LastUpsert(r["customer_id"])[ColumnPos(c)]

C10_ReloadIdempotent ==
    (run = 2 /\ pc = "done" /\ exc = "none" /\ conn = "closed") =>
        committed = prev

C10_Witness ==
    /\ run = 2
    /\ pc = "done"
    /\ exc = "none"
    /\ csv_exists
    /\ committed = prev
    /\ Cardinality(committed.rows) = 2
    /\ \E k \in 1..Len(writes) :
         \E i, j \in 1..Len(writes[k]) :
            /\ i < j
            /\ writes[k][i][1] = writes[k][j][1]
            /\ writes[k][i] # writes[k][j]

\* ----------------------------------------------------------------- C11
\* C11: once setup_database has raised (its table-creation statement, or its
\* commit, failed), it has called rollback on the session and an exception is
\* propagating to the main block; the Batch Loader never starts (no line is
\* read, no write issued), the main commit is never issued and the report
\* never runs.
C11_SetupFailureAborts ==
    (raised_in = "setup_database" /\ pc # "setup_except") =>
        /\ CallsBy("setup_database", "rollback") # {}
        /\ exc # "none"
        /\ pc \in {"except_OperationalError", "except_Exception", "finally", "done"}
        /\ reader_pos = 0
        /\ total_processed = 0
        /\ CallsOf("executemany") = {}
        /\ CallsBy("main", "commit") = {}
        /\ CallsBy("get_filtered_customers", "execute") = {}
        /\ report = "none"

\* the table-creation statement itself failed, and the run has ended
C11_Witness ==
    /\ pc = "done"
    /\ raised_in = "setup_database"
    /\ CallsBy("setup_database", "commit") = {}
    /\ exc = "ProgrammingError"

\* ----------------------------------------------------------------- C12
\* C12: when the report's query has failed, no exception is propagating, the
\* main block has called no rollback, the committed table is still what the
\* main commit made it (the session's view at the commit, untouched since),
\* and the run goes on to close the session as its last call.
C12_ReportFailureLocal ==
    report = "error" =>
        /\ exc = "none"
        /\ raised_in = "none"
        /\ CallsOf("rollback") = {}
        /\ committed = working
        /\ pc \in {"finally", "done"}
        /\ (pc = "done" =>
              /\ conn = "closed"
              /\ log[Len(log)] = Call("main", "close")
              /\ log[Len(log) - 1] = Call("get_filtered_customers", "execute")
              /\ log[Len(log) - 2] = Call("main", "commit"))

C12_Witness ==
    /\ report = "error"
    /\ pc = "done"
    /\ committed.rows # at_load.rows

\* ----------------------------------------------------------------- C13
\* C13: every run ends, and a session once established stays established
\* until it is closed, so it is eventually closed whatever fails afterwards: a
\* run never ends with the session open; and when the session is closed,
\* close has been called exactly once and is the last call made on the
\* session.
C13_ClosedOnce ==
    /\ <>(pc = "done")
    /\ [][conn # "None" => conn' # "None"]_vars
    /\ [](pc = "done" => conn # "open")
    /\ [](conn = "closed" =>
            /\ pc = "done"
            /\ Cardinality(CallsBy("main", "close")) = 1
            /\ log[Len(log)] = Call("main", "close"))

\* the rollback of the error handler itself failed, and the session was
\* closed all the same
C13_Witness ==
    /\ conn = "closed"
    /\ exc = "InterfaceError"
    /\ raised_in = "process_and_insert_csv"
    /\ CallsBy("main", "rollback") # {}

\* ----------------------------------------------------------------- C14
\* the step of the main block a logged call belongs to: 1 Schema Initializer,
\* 2 Batch Loader, 3 commit, 4 Report Reader, 5 error handling and close
Stage(c) ==
    IF c.by = "setup_database" THEN 1
    ELSE IF c.by = "process_and_insert_csv" THEN 2
    ELSE IF c = Call("main", "commit") THEN 3
    ELSE IF c.by = "get_filtered_customers" THEN 4
    ELSE 5

\* C14: the calls of a run are made in the order Schema Initializer, Batch
\* Loader, commit, Report Reader.  The Batch Loader starts only after the
\* Schema Initializer has executed and committed, the main commit is issued
\* only after the Batch Loader has returned, and the Report Reader executes
\* only right after the one main commit, which succeeded; it never executes
\* in a run where the Schema Initializer, the Batch Loader or the commit
\* raised.
C14_StepOrder ==
    /\ \A i, j \in 1..Len(log) : i < j => Stage(log[i]) <= Stage(log[j])
    /\ (reader_pos > 0 \/ pc \in {"load_open", "load_rows"}
          \/ CallsOf("executemany") # {}) =>
         /\ Len(log) >= 2
         /\ log[1] = Call("setup_database", "execute")
         /\ log[2] = Call("setup_database", "commit")
    /\ CallsBy("main", "commit") # {} =>
         /\ LoaderReturned
         /\ Cardinality(CallsBy("main", "commit")) = 1
    /\ (pc = "report" \/ report # "none") =>
         /\ raised_in = "none"
         /\ exc = "none"
         /\ CallsBy("main", "commit") # {}
    /\ \A r \in CallsBy("get_filtered_customers", "execute") :
         /\ r > 1
         /\ log[r - 1] = Call("main", "commit")
         /\ report # "none"
         /\ Cardinality(CallsBy("get_filtered_customers", "execute")) = 1
    /\ raised_in \in {"connect", "setup_database", "process_and_insert_csv",
                      "commit"} =>
         /\ CallsBy("get_filtered_customers", "execute") = {}
         /\ report = "none"
         /\ pc # "report"

\* a run that went through all four steps, with two batches written
C14_Witness ==
    /\ pc = "done"
    /\ report = "listed"
    /\ Cardinality(CallsOf("executemany")) >= 2
    /\ Len(log) >= 7

\* ----------------------------------------------------------------- C15
\* C15: when the session cannot be established, the connectivity error is
\* the one reported and handled by the except OperationalError clause, and
\* nothing else is done: no call at all is made on a session (no statement of
\* the Schema Initializer, no write, no commit, no query of the Report
\* Reader, no rollback, no close), no row is read, the store is untouched and
\* the session stays unset to the end of the run.
C15_NoSession ==
    raised_in = "connect" =>
        /\ exc = "OperationalError"
        /\ pc \in {"except_OperationalError", "finally", "done"}
        /\ conn = "None"
        /\ log = <<>>
        /\ reader_pos = 0
        /\ total_processed = 0
        /\ writes = <<>>
        /\ report = "none"
        /\ working = committed

\* the run has ended after the connection failed
C15_Witness ==
    /\ pc = "done"
    /\ raised_in = "connect"
    /\ conn = "None"

\* ----------------------------------------------------------------- C16
\* C16 as stated: a line read from the source that lacks the first-name or
\* the last-name field (it has fewer than four fields) is counted as
\* processed, is not kept, and raises no error in the loader, which goes on
\* to the next row.
C16_Original ==
    \A i \in 1..reader_pos :
        Len(source[i]) < 4 =>
            /\ total_processed >= i
            /\ i \notin Range(kept)
            /\ ~(raised_in = "process_and_insert_csv" /\ i = reader_pos
                   /\ exc = "AttributeError")

\* ----------------------------------------------------------------- C17
\* a write call was made in this step
Wrote == Len(writes') > Len(writes)

\* the batch is within its size, and below it when a row is about to be read
BatchBounded ==
    /\ Len(batch) <= batch_size
    /\ (pc = "load_rows" => Len(batch) < batch_size)

\* C17 as stated: the batch holds at most N records at every point, fewer
\* than N at the start of each row's processing, and it is empty right after
\* each write call that returned.
C17_Original ==
    /\ []BatchBounded
    /\ [][Wrote /\ exc' = "none" => batch' = <<>>]_vars

\* C17 amended: the batch holds at most N records at every point and fewer
\* than N at the start of each row's processing.  It is empty right after
\* each write issued inside the row loop that returned; the final flush
\* after the loop does not reset it, so when the loader returns after a
\* final flush the batch still holds the records just written; and a write
\* that raised leaves in it the records of the failed statement.
C17_Amended ==
    /\ []BatchBounded
    /\ [][Wrote =>
            LET written == writes'[Len(writes')]
            IN  /\ written # <<>>
                /\ IF exc' # "none" THEN batch' = written
                   ELSE IF pc = "load_rows" /\ reader_pos' > reader_pos
                        THEN batch' = <<>> /\ pc' = "load_rows"
                   ELSE /\ batch' = written
                        /\ pc' = "main_commit"
                        /\ reader_pos' = reader_pos ]_vars

\* the loader has returned after a write inside the loop and a final flush,
\* with the last batch still in memory
C17_Witness ==
    /\ pc = "main_commit"
    /\ Len(writes) >= 2
    /\ batch # <<>>
    /\ batch = writes[Len(writes)]
    /\ exc = "none"

\* ----------------------------------------------------------------- C18
\* the positions, in increasing order, of the first n lines of the file that
\* pass the filter
RECURSIVE Passing(_)
Passing(n) ==
    IF n = 0 THEN <<>>
    ELSE IF PassesFilter(source[n]) THEN Append(Passing(n - 1), n)
    ELSE Passing(n - 1)

\* the k-th field of a data line, None when the line is too short
FieldOf(line, k) == IF k <= Len(line) THEN line[k] ELSE None

\* the record carries the line's fields, column by column (the subscription
\* date, whose value is the matter of C4, aside)
RecordOf(rec, line) ==
    \A k \in 1..Len(DB_COLUMNS) :
        DB_COLUMNS[k] # "subscription_date" => rec[k] = FieldOf(line, k + 1)

\* C18: when process_and_insert_csv has completed on an existing file, the
\* whole file has been read and the written batches, concatenated in the
\* order of the write calls, are the records of the lines that pass the
\* filter, in the order of the file: each kept line was sent exactly once,
\* none was lost at a batch boundary or in the final flush.  Every write
\* but the last carries a full batch and the last one is not empty.
C18_SentIsFiltered ==
    (LoaderReturned /\ csv_exists) =>
        LET p == Passing(Len(source))
        IN  /\ reader_pos = Len(source)
            /\ Len(Sent) = Len(p)
            /\ \A i \in 1..Len(p) : RecordOf(Sent[i], source[p[i]])
            /\ \A w \in 1..Len(writes) :
                 /\ writes[w] # <<>>
                 /\ Len(writes[w]) <= batch_size
                 /\ w < Len(writes) => Len(writes[w]) = batch_size

\* the loader returned after a full batch and a final flush of a shorter one,
\* having discarded a line in between
C18_Witness ==
    /\ pc = "main_commit"
    /\ Len(writes) = 2
    /\ batch_size > 1
    /\ Len(writes[2]) < batch_size
    /\ Len(source) > Len(Sent)
    /\ ~PassesFilter(source[2])

====
